---- MODULE Spec2Model ----
(***************************************************************************)
(* Model of the admission-control and completion core of the Andy AI bot:  *)
(*   utils/rate_limit.py    RateLimiter (sliding 60-second window)         *)
(*   utils/cache.py         SimpleCache (lazy TTL expiry)                  *)
(*   services/llm_service.py LLMService.ask (cache-aside, retries)         *)
(*   cogs/message_handler.py MessageHandlerCog (admission, transmission)   *)
(* Time is the reading of time.time(), in whole seconds.                   *)
(***************************************************************************)
EXTENDS Integers, Sequences, FiniteSets, TLC

VARIABLES
    clock,            \* the value time.time() returns now
    calls_per_minute, \* RateLimiter.calls_per_minute
    call_times,       \* RateLimiter._call_times: key -> list of timestamps
    last_call,        \* RateLimiter._last_call: key -> timestamp
    n_calls,          \* history: is_allowed runs on each key so far (capped)
    first_call,       \* history: clock reading of the first is_allowed run on each key
    admitted,         \* history: admitted timestamps of each key inside the window ending at clock
    ttl_seconds,      \* SimpleCache.ttl_seconds
    cache,            \* SimpleCache._cache: key -> CacheEntry
    last_set,         \* history: value and time of the latest set of each key since the last clear
    wiped,            \* history: whether clear() ran, and the keys it removed
    max_retries,      \* LLMService.max_retries
    call,             \* the LLMService.ask call in progress, or the last one finished
    workers,          \* the ask calls running on worker threads: thread -> position and locals
    handler,          \* MessageHandlerCog: its two limiters, the message in hand, what it sent
    answered,         \* history: value and caching time of the latest successful provider answer per prompt pair since the last clear
    ret               \* what the last operation read and returned

limiterVars == <<calls_per_minute, call_times, last_call, n_calls, first_call, admitted>>
cacheVars == <<ttl_seconds, cache, last_set, wiped>>
askVars == <<max_retries, call, answered>>
workerVars == <<workers>>
handlerVars == <<handler>>

vars == <<clock, limiterVars, cacheVars, askVars, workerVars, handlerVars, ret>>

-----------------------------------------------------------------------------
(* Bounds of the model *)

MaxTime == 120
MaxLimit == 2
MaxPeriods == 1
MaxDrift == 6
MaxWorkerDrift == 1

(* The keys the callers use (user ids, guild ids) *)
Keys == {"user1", "user2"}

(* How far time.time() may move between two readings *)
TickSteps == {30, 60}
Elapsed == {0} \cup TickSteps

-----------------------------------------------------------------------------
(* utils/rate_limit.py *)

WINDOW_SECONDS == 60

RECURSIVE SeqMin(_)
SeqMin(s) ==
    IF Len(s) = 1 THEN s[1]
    ELSE LET m == SeqMin(Tail(s)) IN IF s[1] < m THEN s[1] ELSE m

Max(a, b) == IF a > b THEN a ELSE b

InWindow_inclusive(times, cutoff) == SelectSeq(times, LAMBDA t : t >= cutoff)

(* [t for t in times if t > cutoff] *)
InWindow(times, cutoff) == SelectSeq(times, LAMBDA t : t > cutoff)

(* dict.get(key, []) *)
Lookup(m, key) == IF key \in DOMAIN m THEN m[key] ELSE <<>>

(* d[key] = value on a dict *)
Put(m, key, value) ==
    [k \in DOMAIN m \cup {key} |-> IF k = key THEN value ELSE m[k]]

Pruned_every_key(times, key, now) ==
    [k \in DOMAIN times |-> InWindow(times[k], now - WINDOW_SECONDS)]

Pruned_nothing(times, key, now) == times

(* "Clean old entries": only a key already in the dict is rewritten *)
Pruned(times, key, now) ==
    IF key \in DOMAIN times
    THEN [times EXCEPT ![key] = InWindow(@, now - WINDOW_SECONDS)]
    ELSE times

(* len(self._call_times[key]): the defaultdict creates the missing key *)
Touched(times, key) ==
    IF key \in DOMAIN times THEN times ELSE Put(times, key, <<>>)

LimitExceeded_off_by_one(count, limit) == count > limit

(* "Check if limit exceeded" *)
LimitExceeded(count, limit) == count >= limit

is_allowed_recording_refusals(times, last, key, now, limit) ==
    LET kept == Touched(Pruned(times, key, now), key) IN
    [ok |-> ~LimitExceeded(Len(kept[key]), limit),
     call_times |-> [kept EXCEPT ![key] = Append(@, now)],
     last_call |-> Put(last, key, now)]

(* RateLimiter.is_allowed at clock reading now: the result and the new state *)
is_allowed(times, last, key, now, limit) ==
    LET kept == Touched(Pruned(times, key, now), key) IN
    IF LimitExceeded(Len(kept[key]), limit)
    THEN [ok |-> FALSE, call_times |-> kept, last_call |-> last]
    ELSE [ok |-> TRUE,
          call_times |-> [kept EXCEPT ![key] = Append(@, now)],
          last_call |-> Put(last, key, now)]

Cooldown_unclamped(times, key, now2, now3) ==
    LET valid_times == InWindow(Lookup(times, key), now2 - WINDOW_SECONDS) IN
    IF valid_times = <<>> THEN 0
    ELSE WINDOW_SECONDS - (now3 - SeqMin(valid_times))

(* The value get_cooldown_seconds computes after is_allowed refused, from   *)
(* its second and third readings of the clock                               *)
Cooldown(times, key, now2, now3) ==
    LET valid_times == InWindow(Lookup(times, key), now2 - WINDOW_SECONDS) IN
    IF valid_times = <<>> THEN 0
    ELSE Max(0, WINDOW_SECONDS - (now3 - SeqMin(valid_times)))

get_cooldown_seconds_peek(times, last, key, now1, now2, now3, limit) ==
    LET r == is_allowed(times, last, key, now1, limit) IN
    [ok |-> r.ok, call_times |-> Touched(Pruned(times, key, now1), key), last_call |-> last,
     value |-> IF r.ok THEN 0 ELSE Cooldown(r.call_times, key, now2, now3)]

(* RateLimiter.get_cooldown_seconds: is_allowed reads the clock (now1),     *)
(* then the cutoff (now2) and the return expression (now3) read it again    *)
get_cooldown_seconds(times, last, key, now1, now2, now3, limit) ==
    LET r == is_allowed(times, last, key, now1, limit) IN
    [ok |-> r.ok, call_times |-> r.call_times, last_call |-> r.last_call,
     value |-> IF r.ok THEN 0 ELSE Cooldown(r.call_times, key, now2, now3)]

-----------------------------------------------------------------------------
(* History kept beside the limiter *)

Capped(n) == IF n > MaxLimit + 1 THEN MaxLimit + 2 ELSE n

Counted(key) == [n_calls EXCEPT ![key] = Capped(@ + 1)]

FirstSeen(key, now) ==
    IF n_calls[key] = 0 THEN [first_call EXCEPT ![key] = now] ELSE first_call

(* the admitted timestamps less than a window older than time now *)
Recent(times, now) == SelectSeq(times, LAMBDA t : now - t < WINDOW_SECONDS)

Admitted(key, ok, at, now) ==
    [k \in Keys |->
        Recent(IF k = key /\ ok THEN Append(admitted[k], at) ELSE admitted[k], now)]

NoRet == [op |-> "none", key |-> "", now |-> 0, end |-> 0, ok |-> FALSE, value |-> 0]

Idle ==
    [pc |-> "idle", prompt |-> <<>>, system_prompt |-> <<>>, attempt |-> 0,
     net_calls |-> 0, waits |-> <<>>, only_timeouts |-> TRUE, last |-> "none",
     raw |-> <<>>, gets |-> 0,
     sets |-> 0, result |-> "none", value |-> <<>>, expect |-> <<>>]

AskUnused ==
    /\ max_retries = 1
    /\ call = Idle
    /\ answered = << >>

WorkersUnused == workers = << >>

HandlerUnused == handler = << >>

NeverWiped == [ran |-> FALSE, keys |-> {}]

CacheUnused ==
    /\ ttl_seconds = 0
    /\ cache = << >>
    /\ last_set = << >>
    /\ wiped = NeverWiped

LimiterUnused ==
    /\ calls_per_minute = 1
    /\ call_times = << >>
    /\ last_call = << >>
    /\ n_calls = [k \in Keys |-> 0]
    /\ first_call = [k \in Keys |-> 0]
    /\ admitted = [k \in Keys |-> <<>>]

-----------------------------------------------------------------------------
(* Operations of the limiter *)

LimiterInit ==
    /\ clock = 0
    /\ calls_per_minute \in 1..MaxLimit
    /\ call_times = << >>
    /\ last_call = << >>
    /\ n_calls = [k \in Keys |-> 0]
    /\ first_call = [k \in Keys |-> 0]
    /\ admitted = [k \in Keys |-> <<>>]
    /\ ret = NoRet
    /\ CacheUnused
    /\ AskUnused
    /\ WorkersUnused
    /\ HandlerUnused

(* time passes between two operations *)
Tick ==
    \E d \in TickSteps :
        /\ clock + d <= MaxTime
        /\ clock' = clock + d
        /\ admitted' = Admitted("", FALSE, 0, clock + d)
        /\ ret' = [NoRet EXCEPT !.op = "tick"]
        /\ UNCHANGED <<calls_per_minute, call_times, last_call, n_calls, first_call>>
        /\ UNCHANGED <<cacheVars, askVars, workerVars, handlerVars>>

IsAllowedCall ==
    \E key \in Keys :
        LET r == is_allowed(call_times, last_call, key, clock, calls_per_minute) IN
        /\ call_times' = r.call_times
        /\ last_call' = r.last_call
        /\ n_calls' = Counted(key)
        /\ first_call' = FirstSeen(key, clock)
        /\ admitted' = Admitted(key, r.ok, clock, clock)
        /\ ret' = [op |-> "is_allowed", key |-> key, now |-> clock, end |-> clock,
                   ok |-> r.ok, value |-> 0]
        /\ UNCHANGED <<clock, calls_per_minute, cacheVars, askVars, workerVars, handlerVars>>

CooldownCall ==
    \E key \in Keys, d2 \in Elapsed, d3 \in Elapsed :
        LET now2 == clock + d2
            now3 == now2 + d3
            r == get_cooldown_seconds(call_times, last_call, key, clock, now2, now3,
                                      calls_per_minute)
        IN
        /\ now3 <= MaxTime
        /\ call_times' = r.call_times
        /\ last_call' = r.last_call
        /\ n_calls' = Counted(key)
        /\ first_call' = FirstSeen(key, clock)
        /\ admitted' = Admitted(key, r.ok, clock, now3)
        /\ clock' = now3
        /\ ret' = [op |-> "get_cooldown_seconds", key |-> key, now |-> clock,
                   end |-> now3, ok |-> r.ok, value |-> r.value]
        /\ UNCHANGED <<calls_per_minute, cacheVars, askVars, workerVars, handlerVars>>

LimiterNext == Tick \/ IsAllowedCall \/ CooldownCall

SpecLimiter == LimiterInit /\ [][LimiterNext]_vars

-----------------------------------------------------------------------------
(* utils/cache.py *)

(* Optional[T]: None, or the value *)
None == <<>>
Some(v) == <<v>>

is_expired_at_deadline(entry, now) == now >= entry.expires_at

(* CacheEntry.is_expired *)
is_expired(entry, now) == now > entry.expires_at

(* del d[key] *)
Remove(m, key) == [k \in DOMAIN m \ {key} |-> m[k]]

SimpleCache_get_sweeping(c, key, now) ==
    LET live == [k \in {j \in DOMAIN c : ~is_expired(c[j], now)} |-> c[k]] IN
    IF key \in DOMAIN live THEN [value |-> Some(c[key].value), cache |-> live]
    ELSE [value |-> None, cache |-> live]

(* SimpleCache.get at clock reading now: the value returned and the new dict *)
SimpleCache_get(c, key, now) ==
    IF key \notin DOMAIN c THEN [value |-> None, cache |-> c]
    ELSE IF is_expired(c[key], now) THEN [value |-> None, cache |-> Remove(c, key)]
    ELSE [value |-> Some(c[key].value), cache |-> c]

SimpleCache_set_if_absent(c, key, value, now, ttl) ==
    IF key \in DOMAIN c THEN c
    ELSE Put(c, key, [value |-> value, expires_at |-> now + ttl])

(* SimpleCache.set at clock reading now *)
SimpleCache_set(c, key, value, now, ttl) ==
    Put(c, key, [value |-> value, expires_at |-> now + ttl])

SimpleCache_clear_nothing(c) == c

(* SimpleCache.clear *)
SimpleCache_clear(c) == << >>

(* SimpleCache.size *)
SimpleCache_size(c) == Cardinality(DOMAIN c)

-----------------------------------------------------------------------------
(* Operations of a cache used on its own *)

CacheKeys == {"key1", "key2"}
CacheValues == {"value1", "value2"}

(* the ttl_seconds the cache is constructed with *)
TtlChoices == {0, 30, 60}

CacheRet(op, key, now, value, before) ==
    [op |-> op, key |-> key, now |-> now, value |-> value, before |-> before]

CacheInit ==
    /\ clock = 0
    /\ ttl_seconds \in TtlChoices
    /\ cache = << >>
    /\ last_set = << >>
    /\ wiped = NeverWiped
    /\ ret = CacheRet("none", "", 0, None, 0)
    /\ LimiterUnused
    /\ AskUnused
    /\ WorkersUnused
    /\ HandlerUnused

CacheTick ==
    \E d \in TickSteps :
        /\ clock + d <= MaxTime
        /\ clock' = clock + d
        /\ ret' = CacheRet("tick", "", clock + d, None, SimpleCache_size(cache))
        /\ UNCHANGED <<cacheVars, limiterVars, askVars, workerVars, handlerVars>>

SetCall ==
    \E key \in CacheKeys, value \in CacheValues :
        /\ cache' = SimpleCache_set(cache, key, value, clock, ttl_seconds)
        /\ last_set' = Put(last_set, key, [value |-> value, at |-> clock])
        /\ ret' = CacheRet("set", key, clock, Some(value), SimpleCache_size(cache))
        /\ UNCHANGED <<clock, ttl_seconds, wiped, limiterVars, askVars, workerVars, handlerVars>>

GetCall ==
    \E key \in CacheKeys :
        LET r == SimpleCache_get(cache, key, clock) IN
        /\ cache' = r.cache
        /\ ret' = CacheRet("get", key, clock, r.value, SimpleCache_size(cache))
        /\ UNCHANGED <<clock, ttl_seconds, last_set, wiped, limiterVars, askVars, workerVars, handlerVars>>

ClearCall ==
    /\ cache' = SimpleCache_clear(cache)
    /\ last_set' = << >>
    /\ wiped' = [ran |-> TRUE, keys |-> DOMAIN cache]
    /\ ret' = CacheRet("clear", "", clock, None, SimpleCache_size(cache))
    /\ UNCHANGED <<clock, ttl_seconds, limiterVars, askVars, workerVars, handlerVars>>

SizeCall ==
    /\ ret' = CacheRet("size", "", clock, Some(SimpleCache_size(cache)),
                       SimpleCache_size(cache))
    /\ UNCHANGED <<clock, cacheVars, limiterVars, askVars, workerVars, handlerVars>>

CacheNext == CacheTick \/ SetCall \/ GetCall \/ ClearCall \/ SizeCall

SpecCache == CacheInit /\ [][CacheNext]_vars

-----------------------------------------------------------------------------
(* Claims about the cache, checked under SpecCache *)

(* C5: get(key) returns the value of the latest set(key, value) since the   *)
(* last clear as long as now <= time of that set + ttl_seconds, and returns *)
(* None whenever now is later than that: no expired entry is returned.      *)
C5_GetWithinTtl ==
    (ret.op = "get" /\ ret.key \in DOMAIN last_set) =>
        LET latest == last_set[ret.key] IN
        IF ret.now <= latest.at + ttl_seconds
        THEN ret.value = Some(latest.value)
        ELSE ret.value = None

C5_Witness ==
    /\ ret.op = "get"
    /\ ret.key \in DOMAIN last_set
    /\ ttl_seconds = 30
    /\ last_set[ret.key].at = 30
    /\ ret.now = 90
    /\ ret.value = None
    /\ ret.before = 2
    /\ SimpleCache_size(cache) = 1

(* C6: right after clear() size() is 0, and from then on get(k) returns     *)
(* None for every key k that has not been set again since.                  *)
C6_ClearEmpties ==
    /\ ret.op = "clear" => SimpleCache_size(cache) = 0
    /\ (wiped.ran /\ ret.op = "get" /\ ret.key \notin DOMAIN last_set) =>
          ret.value = None

C6_Witness ==
    /\ wiped.ran
    /\ wiped.keys = CacheKeys
    /\ ret.op = "get"
    /\ ret.key \notin DOMAIN last_set
    /\ ret.value = None
    /\ SimpleCache_size(cache) = 1

-----------------------------------------------------------------------------
(* Claims about the limiter, checked under SpecLimiter *)

CallOps == {"is_allowed", "get_cooldown_seconds"}

(* C1: counting the is_allowed runs on a key from its first one, every run  *)
(* made less than 60 seconds after the first returns true while it is one   *)
(* of the first `limit` runs, and the (limit+1)-th such run returns false.  *)
C1_FirstLimitCallsAdmitted ==
    ret.op \in CallOps =>
        LET n == n_calls[ret.key] IN
        ret.now - first_call[ret.key] < WINDOW_SECONDS =>
            /\ n <= calls_per_minute => ret.ok
            /\ n = calls_per_minute + 1 => ~ret.ok

C1_Witness ==
    /\ ret.op = "is_allowed"
    /\ calls_per_minute = MaxLimit
    /\ n_calls[ret.key] = calls_per_minute + 1
    /\ ret.now = 30
    /\ first_call[ret.key] = 0
    /\ ~ret.ok

(* C2: right after a call on key k that read the clock as `now`, the stored *)
(* sequence of k holds only timestamps t with now - 60 < t <= now and at    *)
(* most `limit` of them; and at every moment at most `limit` admitted calls *)
(* of a key lie in the 60-second window that ends at that moment.           *)
C2_StoredInsideWindow ==
    /\ ret.op \in CallOps =>
          LET stored == call_times[ret.key] IN
          /\ Len(stored) <= calls_per_minute
          /\ \A i \in 1..Len(stored) :
                ret.now - WINDOW_SECONDS < stored[i] /\ stored[i] <= ret.now
    /\ \A k \in Keys : Len(admitted[k]) <= calls_per_minute

C2_Witness ==
    /\ ret.op = "is_allowed"
    /\ ret.ok
    /\ ret.now = 90
    /\ calls_per_minute = MaxLimit
    /\ first_call[ret.key] = 0
    /\ n_calls[ret.key] > calls_per_minute
    /\ Len(call_times[ret.key]) = calls_per_minute
    /\ call_times[ret.key][1] = 60

(* C3: a call on key a leaves what the limiter stores for every other key b *)
(* as it was, and with it the answer is_allowed(b) would give.              *)
C3_KeysIndependent ==
    [][\A a \in Keys :
          (ret'.op \in CallOps /\ ret'.key = a) =>
              \A b \in Keys \ {a} :
                  /\ (b \in DOMAIN call_times') = (b \in DOMAIN call_times)
                  /\ Lookup(call_times', b) = Lookup(call_times, b)
                  /\ (b \in DOMAIN last_call') = (b \in DOMAIN last_call)
                  /\ Lookup(last_call', b) = Lookup(last_call, b)
                  /\ is_allowed(call_times', last_call', b, clock', calls_per_minute).ok
                       = is_allowed(call_times, last_call, b, clock', calls_per_minute).ok
      ]_vars

C3_Witness ==
    /\ ret.op = "is_allowed"
    /\ ret.key = "user2"
    /\ ret.ok
    /\ ret.now = 30
    /\ n_calls["user2"] = 1
    /\ n_calls["user1"] > calls_per_minute
    /\ Lookup(call_times, "user1") = [i \in 1..calls_per_minute |-> 0]

(* C4 as stated: get_cooldown_seconds returns 0 exactly when its is_allowed *)
(* check admits the key, and a value in (0, 60] otherwise.                  *)
C4_ZeroExactlyWhenAllowed ==
    ret.op = "get_cooldown_seconds" =>
        /\ (ret.value = 0) = ret.ok
        /\ ~ret.ok => ret.value \in 1..WINDOW_SECONDS

(* C4, amended: get_cooldown_seconds returns 0 whenever its is_allowed      *)
(* check admits the key; when that check refuses, it returns a value in     *)
(* [0, 60], which lies in (0, 60] if the clock did not move during the call *)
(* and is 0 only if the key is allowed again at the call's last clock       *)
(* reading; a key with an empty or absent sequence always yields 0.         *)
C4_CooldownRange ==
    /\ [](ret.op = "get_cooldown_seconds" =>
            /\ ret.ok => ret.value = 0
            /\ ~ret.ok =>
                  /\ ret.value \in 0..WINDOW_SECONDS
                  /\ ret.end = ret.now => ret.value >= 1
                  /\ ret.value = 0 =>
                        is_allowed(call_times, last_call, ret.key, ret.end,
                                   calls_per_minute).ok)
    /\ [][\A k \in Keys :
            (ret'.op = "get_cooldown_seconds" /\ ret'.key = k
                /\ Lookup(call_times, k) = <<>>) => ret'.value = 0
         ]_vars

C4_Witness ==
    /\ ret.op = "get_cooldown_seconds"
    /\ ~ret.ok
    /\ ret.end = ret.now
    /\ ret.value = 30

-----------------------------------------------------------------------------
(* config/settings.py *)

LLM_MAX_RETRIES == 3
CACHING_ENABLED == TRUE
CACHE_TTL_SECONDS == 3600

(* Config.SYSTEM_PROMPT, abbreviated; texts are sequences of characters *)
SYSTEM_PROMPT == <<"Y", "o", "u", " ", "a", "r", "e", " ", "A", "n", "d", "y">>

-----------------------------------------------------------------------------
(* services/llm_service.py *)

IsSpace(c) == c \in {" ", "\n", "\t"}

RECURSIVE LStrip(_)
LStrip(s) == IF s # <<>> /\ IsSpace(Head(s)) THEN LStrip(Tail(s)) ELSE s

RECURSIVE RStrip(_)
RStrip(s) ==
    IF s # <<>> /\ IsSpace(s[Len(s)]) THEN RStrip(SubSeq(s, 1, Len(s) - 1)) ELSE s

Strip_leading_only(s) == LStrip(s)

(* str.strip *)
Strip(s) == RStrip(LStrip(s))

(* sub in text *)
Contains(text, sub) ==
    \E i \in 1..(Len(text) - Len(sub) + 1) : SubSeq(text, i, i + Len(sub) - 1) = sub

(* ord(c) of the characters the prompts use *)
Ord(c) ==
    CASE c = " " -> 32 [] c = "a" -> 97 [] c = "b" -> 98 [] c = "A" -> 65
      [] c = "Y" -> 89 [] c = "d" -> 100 [] c = "e" -> 101 [] c = "n" -> 110
      [] c = "o" -> 111 [] c = "r" -> 114 [] c = "u" -> 117 [] c = "y" -> 121
      [] OTHER -> 63

(* hash(text): the same integer for the same text within a process (not    *)
(* injective: here texts with the same characters share it)                 *)
RECURSIVE Hash(_)
Hash(text) == IF text = <<>> THEN 0 ELSE Ord(Head(text)) + Hash(Tail(text))

build_cache_key_user_only(system_prompt, user_prompt) == <<0, Hash(user_prompt)>>

(* LLMService._build_cache_key: f"{hash(system_prompt)}:{hash(user_prompt)}" *)
build_cache_key(system_prompt, user_prompt) == <<Hash(system_prompt), Hash(user_prompt)>>

InvalidPrompt_empty_only(prompt) == prompt = <<>>

(* "not prompt or not prompt.strip()" *)
InvalidPrompt(prompt) == prompt = <<>> \/ Strip(prompt) = <<>>

(* "system_prompt or Config.SYSTEM_PROMPT": None and "" give the default *)
EffectiveSystemPrompt(arg) ==
    IF arg = None \/ arg[1] = <<>> THEN SYSTEM_PROMPT ELSE arg[1]

(* "if cached_response:" on what SimpleCache.get returned *)
Truthy(opt) == opt # None /\ opt[1] # <<>>

Backoff_from_one(attempt) == 2 ^ (attempt - 1)

(* "wait_time = 2 ** attempt" *)
Backoff(attempt) == 2 ^ attempt

IsAuthText_401_only(text) == Contains(text, <<"4", "0", "1">>)

(* '"401" in str(e) or "403" in str(e)' *)
IsAuthText(text) ==
    Contains(text, <<"4", "0", "1">>) \/ Contains(text, <<"4", "0", "3">>)

(* which except clause takes the failure *)
Classify(o) ==
    CASE o.kind = "APITimeoutError" -> "timeout"
      [] o.kind = "APIConnectionError" -> "connection"
      [] o.kind = "APIError" -> IF IsAuthText(o.text) THEN "auth" ELSE "api"
      [] OTHER -> "unexpected"

HasNextAttempt_inclusive(attempt, retries) == attempt <= retries

(* "if attempt < self.max_retries": another pass of the loop follows *)
HasNextAttempt(attempt, retries) == attempt < retries

(* the sleep before the next attempt *)
RetryWait(class, attempt) == IF class = "unexpected" THEN 1 ELSE Backoff(attempt)

-----------------------------------------------------------------------------
(* The callers and the provider *)

(* prompts handed to ask: empty, blank, and a question *)
UserPrompts == { <<>>, <<" ", " ">>, <<"a", "b">> }

(* the system_prompt argument: left out, or a custom one *)
SystemPromptArgs == { None, Some(<<"b", "e">>) }

(* message.content of a completion *)
ProviderTexts == { <<" ", " ">>, <<" ", "h", "i", "\n">> }

(* what one call of client.chat.completions.create does; status is the HTTP *)
(* status the provider answered with, text is str(e); the 429 is a rate     *)
(* limit answer whose text quotes a quota of 4030                           *)
Outcomes ==
    {[kind |-> "ok", status |-> 200, text |-> t] : t \in ProviderTexts}
    \cup {[kind |-> "APITimeoutError", status |-> 0,
           text |-> <<"t", "i", "m", "e", "d", " ", "o", "u", "t">>],
          [kind |-> "APIConnectionError", status |-> 0,
           text |-> <<"c", "o", "n", "n", "e", "c", "t", "i", "o", "n">>],
          [kind |-> "APIError", status |-> 401,
           text |-> <<"c", "o", "d", "e", ":", " ", "4", "0", "1">>],
          [kind |-> "APIError", status |-> 403,
           text |-> <<"c", "o", "d", "e", ":", " ", "4", "0", "3">>],
          [kind |-> "APIError", status |-> 500,
           text |-> <<"c", "o", "d", "e", ":", " ", "5", "0", "0">>],
          [kind |-> "APIError", status |-> 429,
           text |-> <<"4", "2", "9", " ", "o", "f", " ", "4", "0", "3", "0">>],
          [kind |-> "Exception", status |-> 0,
           text |-> <<"N", "o", "n", "e", "T", "y", "p", "e">>]}

(* the failure as the provider meant it *)
Tag(o) ==
    IF o.kind = "APIError"
    THEN (IF o.status \in {401, 403} THEN "auth" ELSE "api")
    ELSE o.kind

Pair(c) == <<c.system_prompt, c.prompt>>

(* the answers of the history that are no older than ttl_seconds at time now *)
Fresh(answers, now) ==
    [p \in {q \in DOMAIN answers : now <= answers[q].at + ttl_seconds} |-> answers[p]]

(* the answer the history promises for a prompt pair at time now *)
Expected(pair, now) ==
    IF pair \in DOMAIN Fresh(answered, now) THEN Some(answered[pair].value) ELSE None

AskRet(op) == [op |-> op]

(* the clock readings of the model: up to MaxPeriods cache lifetimes after  *)
(* the start, each followed by up to MaxDrift seconds                       *)
ClockInRange(t) ==
    /\ t \div CACHE_TTL_SECONDS <= MaxPeriods
    /\ t % CACHE_TTL_SECONDS <= MaxDrift

-----------------------------------------------------------------------------
(* Operations of the completion client *)

AskInit ==
    /\ clock = 0
    /\ ttl_seconds = CACHE_TTL_SECONDS
    /\ cache = << >>
    /\ last_set = << >>
    /\ wiped = NeverWiped
    /\ max_retries \in 1..LLM_MAX_RETRIES
    /\ call = Idle
    /\ answered = << >>
    /\ ret = AskRet("none")
    /\ LimiterUnused
    /\ WorkersUnused
    /\ HandlerUnused

(* time passes *)
AskTick ==
    /\ ClockInRange(clock + CACHE_TTL_SECONDS)
    /\ clock' = clock + CACHE_TTL_SECONDS
    /\ answered' = Fresh(answered, clock + CACHE_TTL_SECONDS)
    /\ ret' = AskRet("tick")
    /\ UNCHANGED <<cacheVars, max_retries, call, limiterVars, workerVars, handlerVars>>

(* ask(prompt, system_prompt) up to its first provider call *)
AskStart ==
    \E prompt \in UserPrompts, arg \in SystemPromptArgs :
        /\ call.pc \in {"idle", "done"}
        /\ ret' = AskRet("ask")
        /\ UNCHANGED <<clock, ttl_seconds, last_set, wiped, max_retries, answered, limiterVars, workerVars, handlerVars>>
        /\ IF InvalidPrompt(prompt)
           THEN /\ call' = [Idle EXCEPT !.pc = "done", !.prompt = prompt,
                                        !.result = "ValueError"]
                /\ cache' = cache
           ELSE LET system == EffectiveSystemPrompt(arg)
                    started == [Idle EXCEPT !.prompt = prompt,
                                            !.system_prompt = system,
                                            !.expect = Expected(<<system, prompt>>, clock)]
                    r == SimpleCache_get(cache, build_cache_key(system, prompt), clock)
                IN
                IF ~CACHING_ENABLED
                THEN /\ call' = [started EXCEPT !.pc = "attempt", !.attempt = 1]
                     /\ cache' = cache
                ELSE /\ cache' = r.cache
                     /\ call' = IF Truthy(r.value)
                                THEN [started EXCEPT !.pc = "done", !.gets = 1,
                                                     !.result = "ok",
                                                     !.value = r.value[1]]
                                ELSE [started EXCEPT !.pc = "attempt", !.gets = 1,
                                                     !.attempt = 1]

(* one pass of the retry loop: the provider call, and what follows it *)
AskAttempt ==
    \E o \in Outcomes :
        LET n == call.attempt
            tried == [call EXCEPT !.net_calls = @ + 1,
                                  !.last = Tag(o),
                                  !.only_timeouts = @ /\ Tag(o) \in {"ok", "APITimeoutError"}]
            class == Classify(o)
            wait == RetryWait(class, n)
        IN
        /\ call.pc = "attempt"
        /\ ret' = AskRet("attempt")
        /\ UNCHANGED <<ttl_seconds, last_set, wiped, max_retries, limiterVars, workerVars, handlerVars>>
        /\ IF o.kind = "ok"
           THEN LET output == Strip(o.text)
                    key == build_cache_key(call.system_prompt, call.prompt)
                IN
                /\ cache' = IF CACHING_ENABLED
                            THEN SimpleCache_set(cache, key, output, clock, ttl_seconds)
                            ELSE cache
                /\ answered' = IF CACHING_ENABLED
                               THEN Put(answered, Pair(call),
                                        [value |-> output, at |-> clock])
                               ELSE answered
                /\ call' = [tried EXCEPT !.pc = "done", !.result = "ok",
                                         !.raw = o.text, !.value = output,
                                         !.sets = IF CACHING_ENABLED THEN 1 ELSE 0]
                /\ clock' = clock
           ELSE /\ cache' = cache
                /\ answered' = IF class # "auth" /\ HasNextAttempt(n, max_retries)
                               THEN Fresh(answered, clock + wait)
                               ELSE answered
                /\ IF class = "auth"
                   THEN /\ call' = [tried EXCEPT !.pc = "done",
                                                 !.result = "AuthenticationError",
                                                 !.value = o.text]
                        /\ clock' = clock
                   ELSE IF HasNextAttempt(n, max_retries)
                   THEN /\ ClockInRange(clock + wait)
                        /\ clock' = clock + wait
                        /\ call' = [tried EXCEPT !.attempt = n + 1,
                                                 !.waits = Append(@, wait),
                                                 !.value = o.text]
                   ELSE /\ call' = [tried EXCEPT !.pc = "done",
                                                 !.result = "RetriesExhausted",
                                                 !.value = o.text]
                        /\ clock' = clock

(* LLMService.clear_cache *)
ClearCacheCall ==
    /\ CACHING_ENABLED
    /\ cache' = SimpleCache_clear(cache)
    /\ answered' = << >>
    /\ ret' = AskRet("clear_cache")
    /\ UNCHANGED <<clock, ttl_seconds, last_set, wiped, max_retries, call, limiterVars, workerVars, handlerVars>>

AskNext == AskTick \/ AskStart \/ AskAttempt \/ ClearCacheCall

SpecAsk == AskInit /\ [][AskNext]_vars

(* each provider call returns or times out, and each sleep ends: a call in  *)
(* its retry loop goes on to the end of its current pass                    *)
SpecAskFair == SpecAsk /\ WF_vars(AskAttempt)

-----------------------------------------------------------------------------
(* Claims about the completion client, checked under SpecAsk *)

AllWhitespace(text) == \A i \in 1..Len(text) : text[i] \in {" ", "\n", "\t"}

CallKey == build_cache_key(call.system_prompt, call.prompt)

(* C7: ask with an empty or all-whitespace prompt ends at once with         *)
(* ValueError: no provider call, no cache read or write, no wait; the step  *)
(* leaves the cache (expired entries included) and the clock as they were.  *)
C7_BlankPromptRejected ==
    /\ []((call.pc # "idle" /\ AllWhitespace(call.prompt)) =>
            /\ call.pc = "done"
            /\ call.result = "ValueError"
            /\ call.net_calls = 0
            /\ call.gets = 0
            /\ call.sets = 0
            /\ call.waits = <<>>)
    /\ [][(ret'.op = "ask" /\ AllWhitespace(call'.prompt)) =>
            cache' = cache /\ clock' = clock]_vars

C7_Witness ==
    /\ ret.op = "ask"
    /\ call.prompt = <<" ", " ">>
    /\ call.result = "ValueError"
    /\ \E k \in DOMAIN cache : clock > cache[k].expires_at

(* C8 as stated: once a provider answer for a prompt pair was cached, every *)
(* ask with that pair made within ttl_seconds of it, with no clear_cache in *)
(* between, returns that answer without any provider call.                  *)
C8_CachedAnswerReused ==
    (call.pc # "idle" /\ call.expect # None) =>
        /\ call.pc = "done"
        /\ call.result = "ok"
        /\ call.value = call.expect[1]
        /\ call.net_calls = 0

(* C8 holds of every answer that is not the empty text *)
C8_NonEmptyAnswerReused ==
    (call.pc # "idle" /\ call.expect # None /\ call.expect[1] # <<>>) =>
        /\ call.pc = "done"
        /\ call.result = "ok"
        /\ call.value = call.expect[1]
        /\ call.net_calls = 0

C8_NonEmptyWitness ==
    /\ call.pc = "done"
    /\ call.expect = Some(<<"h", "i">>)
    /\ call.value = <<"h", "i">>
    /\ clock = CACHE_TTL_SECONDS

(* C9: with max_retries = 3, when the provider timed out on attempts 1 and  *)
(* 2 and answers attempt 3, ask returns the stripped answer after exactly   *)
(* three provider calls, having slept 2 and then 4 seconds, and the cache   *)
(* holds the stripped answer under the call's key when it returns.          *)
C9_ThirdAttemptSucceeds ==
    /\ (max_retries = 3 /\ call.only_timeouts /\ call.last = "APITimeoutError"
            /\ call.net_calls < 3) => call.pc = "attempt"
    /\ (max_retries = 3 /\ call.only_timeouts /\ call.last = "ok"
            /\ call.net_calls = 3) =>
          /\ call.pc = "done"
          /\ call.result = "ok"
          /\ call.value = Strip(call.raw)
          /\ call.waits = <<2, 4>>
          /\ call.sets = 1
          /\ ret.op = "attempt" =>
                /\ CallKey \in DOMAIN cache
                /\ cache[CallKey] = [value |-> Strip(call.raw),
                                     expires_at |-> clock + ttl_seconds]

C9_Witness ==
    /\ ret.op = "attempt"
    /\ max_retries = 3
    /\ call.pc = "done"
    /\ call.only_timeouts
    /\ call.last = "ok"
    /\ call.net_calls = 3
    /\ call.raw = <<" ", "h", "i", "\n">>
    /\ call.value = <<"h", "i">>
    /\ clock = 6

(* C10: an attempt the provider answers with 401 or 403 ends the call with  *)
(* AuthenticationError: no sleep follows it, no further attempt starts, the *)
(* call caches nothing and the step leaves cache and clock as they were; a  *)
(* call whose first attempt is refused so has made exactly one call.        *)
C10_AuthErrorIsFatal ==
    /\ [](call.last = "auth" =>
            /\ call.pc = "done"
            /\ call.result = "AuthenticationError"
            /\ Len(call.waits) = call.net_calls - 1
            /\ call.sets = 0)
    /\ [][(ret'.op = "attempt" /\ call'.last = "auth") =>
            /\ cache' = cache
            /\ clock' = clock
            /\ call'.net_calls = call.net_calls + 1
            /\ call'.waits = call.waits]_vars

C10_Witness ==
    /\ ret.op = "attempt"
    /\ call.last = "auth"
    /\ call.result = "AuthenticationError"
    /\ call.net_calls = 1
    /\ call.waits = <<>>
    /\ max_retries = 3
    /\ Contains(call.value, <<"4", "0", "3">>)

(* C11: when every attempt of a call timed out, the call fails with         *)
(* RetriesExhausted after exactly max_retries provider calls (and not       *)
(* before), for max_retries 1..3; it slept only between attempts, the last  *)
(* attempt is followed by no sleep, and the failure carries the text of the *)
(* last error observed.                                                     *)
C11_TimeoutsExhaustRetries ==
    /\ []((call.only_timeouts /\ call.last = "APITimeoutError") =>
            /\ call.net_calls <= max_retries
            /\ call.net_calls < max_retries => call.pc = "attempt"
            /\ call.net_calls = max_retries =>
                  /\ call.pc = "done"
                  /\ call.result = "RetriesExhausted"
                  /\ Len(call.waits) = max_retries - 1
                  /\ call.sets = 0)
    /\ [](call.result = "RetriesExhausted" =>
            /\ call.net_calls = max_retries
            /\ \E o \in Outcomes : Tag(o) = call.last /\ call.value = o.text)
    /\ [][(ret'.op = "attempt" /\ call'.result = "RetriesExhausted") =>
            clock' = clock /\ call'.waits = call.waits]_vars

C11_Witness ==
    /\ ret.op = "attempt"
    /\ max_retries = 3
    /\ call.only_timeouts
    /\ call.result = "RetriesExhausted"
    /\ call.net_calls = 3
    /\ call.waits = <<2, 4>>
    /\ call.value = <<"t", "i", "m", "e", "d", " ", "o", "u", "t">>
    /\ clock = 6

-----------------------------------------------------------------------------
(* Concurrent ask calls.  MessageHandlerCog._get_llm_response hands every   *)
(* ask to a thread of the event loop's default executor; the threads share  *)
(* LLMService.cache, which takes no lock.  A step is one dict operation or  *)
(* one clock reading of a thread.                                           *)

Threads == {"t1", "t2"}

(* the cleaned prompts of the messages being answered *)
WorkerPrompts == { <<"a", "b">> }

(* how the retry loop of one call ends *)
Endings ==
    {[result |-> "ok", text |-> t] : t \in ProviderTexts}
    \cup {[result |-> "AuthenticationError", text |-> <<>>],
          [result |-> "RetriesExhausted", text |-> <<>>]}

(* how far time.time() may move between two steps of the threads *)
WorkerTickSteps == {1, CACHE_TTL_SECONDS}

WorkerIdle ==
    [pc |-> "idle", key |-> <<>>, entry |-> None, output |-> <<>>,
     expires_at |-> 0, result |-> "none", value |-> <<>>]

(* a call that has returned or raised: its locals are gone *)
WorkerDone(w, result, value) ==
    [WorkerIdle EXCEPT !.pc = "done", !.key = w.key, !.result = result, !.value = value]

(* the clock readings of the threads' model *)
WorkerClockInRange(t) ==
    /\ t \div CACHE_TTL_SECONDS <= MaxPeriods
    /\ t % CACHE_TTL_SECONDS <= MaxWorkerDrift

WorkerRet(op, t) == [op |-> op, thread |-> t]

WorkerFrame == UNCHANGED <<ttl_seconds, last_set, wiped, limiterVars, askVars, handlerVars>>

WorkersInit ==
    /\ clock = 0
    /\ ttl_seconds = CACHE_TTL_SECONDS
    /\ cache = << >>
    /\ last_set = << >>
    /\ wiped = NeverWiped
    /\ workers = [t \in Threads |-> WorkerIdle]
    /\ ret = WorkerRet("none", "")
    /\ LimiterUnused
    /\ AskUnused
    /\ HandlerUnused

WorkerTick ==
    \E d \in WorkerTickSteps :
        /\ WorkerClockInRange(clock + d)
        /\ clock' = clock + d
        /\ ret' = WorkerRet("tick", "")
        /\ UNCHANGED <<cache, workers>>
        /\ WorkerFrame

(* ask up to its cache lookup: the prompt is valid, the key is built *)
WorkerAsk(t) ==
    \E prompt \in WorkerPrompts :
        /\ workers[t].pc \in {"idle", "done"}
        /\ ~InvalidPrompt(prompt)
        /\ CACHING_ENABLED
        /\ workers' = [workers EXCEPT ![t] =
               [WorkerIdle EXCEPT !.pc = "contains",
                                  !.key = build_cache_key(EffectiveSystemPrompt(None), prompt)]]
        /\ ret' = WorkerRet("ask", t)
        /\ UNCHANGED <<clock, cache>>
        /\ WorkerFrame

(* SimpleCache.get: "if key not in self._cache: return None" *)
WorkerContains(t) ==
    /\ workers[t].pc = "contains"
    /\ workers' = [workers EXCEPT ![t].pc =
           IF workers[t].key \in DOMAIN cache THEN "index" ELSE "retry"]
    /\ ret' = WorkerRet("contains", t)
    /\ UNCHANGED <<clock, cache>>
    /\ WorkerFrame

(* SimpleCache.get: "entry = self._cache[key]" *)
WorkerIndex(t) ==
    /\ workers[t].pc = "index"
    /\ workers' = [workers EXCEPT ![t] =
           IF workers[t].key \in DOMAIN cache
           THEN [@ EXCEPT !.pc = "is_expired", !.entry = Some(cache[workers[t].key])]
           ELSE WorkerDone(@, "KeyError", <<>>)]
    /\ ret' = WorkerRet("index", t)
    /\ UNCHANGED <<clock, cache>>
    /\ WorkerFrame

(* SimpleCache.get: "if entry.is_expired()", else the value goes back to    *)
(* ask and its "if cached_response:"                                        *)
WorkerIsExpired(t) ==
    LET entry == workers[t].entry[1] IN
    /\ workers[t].pc = "is_expired"
    /\ workers' = [workers EXCEPT ![t] =
           IF is_expired(entry, clock) THEN [@ EXCEPT !.pc = "del", !.entry = None]
           ELSE IF Truthy(Some(entry.value))
           THEN WorkerDone(@, "ok", entry.value)
           ELSE [@ EXCEPT !.pc = "retry", !.entry = None]]
    /\ ret' = WorkerRet("is_expired", t)
    /\ UNCHANGED <<clock, cache>>
    /\ WorkerFrame

(* SimpleCache.get: "del self._cache[key]; return None" *)
WorkerDel(t) ==
    /\ workers[t].pc = "del"
    /\ IF workers[t].key \in DOMAIN cache
       THEN /\ cache' = Remove(cache, workers[t].key)
            /\ workers' = [workers EXCEPT ![t].pc = "retry"]
       ELSE /\ cache' = cache
            /\ workers' = [workers EXCEPT ![t] =
                   WorkerDone(@, "KeyError", <<>>)]
    /\ ret' = WorkerRet("del", t)
    /\ UNCHANGED clock
    /\ WorkerFrame

(* the retry loop of ask, up to "output = ... .strip()" or its failure *)
WorkerRetry(t) ==
    \E e \in Endings :
        /\ workers[t].pc = "retry"
        /\ workers' = [workers EXCEPT ![t] =
               IF e.result = "ok"
               THEN [@ EXCEPT !.pc = "expires_at", !.output = Strip(e.text)]
               ELSE WorkerDone(@, e.result, <<>>)]
        /\ ret' = WorkerRet("retry", t)
        /\ UNCHANGED <<clock, cache>>
        /\ WorkerFrame

(* SimpleCache.set: "expires_at = time.time() + self.ttl_seconds" *)
WorkerExpiresAt(t) ==
    /\ workers[t].pc = "expires_at"
    /\ workers' = [workers EXCEPT ![t] =
           [@ EXCEPT !.pc = "store", !.expires_at = clock + ttl_seconds]]
    /\ ret' = WorkerRet("expires_at", t)
    /\ UNCHANGED <<clock, cache>>
    /\ WorkerFrame

(* SimpleCache.set: "self._cache[key] = CacheEntry(...)", and ask returns *)
WorkerStore(t) ==
    /\ workers[t].pc = "store"
    /\ cache' = Put(cache, workers[t].key,
                    [value |-> workers[t].output, expires_at |-> workers[t].expires_at])
    /\ workers' = [workers EXCEPT ![t] =
           WorkerDone(@, "ok", workers[t].output)]
    /\ ret' = WorkerRet("store", t)
    /\ UNCHANGED clock
    /\ WorkerFrame

WorkerStep(t) ==
    \/ WorkerAsk(t)
    \/ WorkerContains(t)
    \/ WorkerIndex(t)
    \/ WorkerIsExpired(t)
    \/ WorkerDel(t)
    \/ WorkerRetry(t)
    \/ WorkerExpiresAt(t)
    \/ WorkerStore(t)

WorkersNext == WorkerTick \/ \E t \in Threads : WorkerStep(t)

SpecWorkers == WorkersInit /\ [][WorkersNext]_vars

(* the steps of a thread that is inside ask *)
WorkerRuns(t) ==
    \/ WorkerContains(t)
    \/ WorkerIndex(t)
    \/ WorkerIsExpired(t)
    \/ WorkerDel(t)
    \/ WorkerRetry(t)
    \/ WorkerExpiresAt(t)
    \/ WorkerStore(t)

(* the executor keeps running each of its threads, and each provider call   *)
(* returns or times out                                                     *)
SpecWorkersFair == SpecWorkers /\ \A t \in Threads : WF_vars(WorkerRuns(t))

-----------------------------------------------------------------------------
(* Claims about ask, checked under SpecWorkers and SpecAsk *)

AskResults == {"ok", "ValueError", "AuthenticationError", "RetriesExhausted"}

(* C12 as stated: every ask call returns a response or fails with one of    *)
(* InvalidInput (ValueError), AuthenticationError, RetriesExhausted; no     *)
(* other failure of the provider, the transport or the cache escapes it.    *)
C12_OnlyThreeFailureKinds ==
    \A t \in Threads : workers[t].pc = "done" => workers[t].result \in AskResults

(* C12 holds of calls that run one at a time (SpecAsk) *)
C12_OneCallAtATime ==
    call.pc = "done" => call.result \in AskResults

-----------------------------------------------------------------------------
(* cogs/message_handler.py *)

MAX_MESSAGE_LENGTH == 1900
RATE_LIMIT_ENABLED == TRUE
ERROR_MARGIN == 50
MARKER_ROOM == 4

Min(a, b) == IF a < b THEN a ELSE b

(* text[:n] *)
Prefix(text, n) == SubSeq(text, 1, Min(Len(text), n))

TRUNCATION_MARKER == <<".", ".", ".">>

BOT == "bot"
BOT_MENTIONS == {"<@bot>", "<@!bot>"}

(* message.author.mention *)
Mention(author) == <<"<", "@", author, ">">>

(* _extract_prompt: a mention of the bot is one token of the content *)
extract_prompt(content) == Strip(SelectSeq(content, LAMBDA c : c \notin BOT_MENTIONS))

(* the greeting sent for a mention without a prompt *)
Greeting(author) == <<"H", "e", "l", "l", "o", " ">> \o Mention(author)

Truncated_no_marker(response) ==
    IF Len(response) > MAX_MESSAGE_LENGTH
    THEN Prefix(response, MAX_MESSAGE_LENGTH - MARKER_ROOM)
    ELSE response

(* _send_response: "Truncate if necessary" *)
Truncated(response) ==
    IF Len(response) > MAX_MESSAGE_LENGTH
    THEN Prefix(response, MAX_MESSAGE_LENGTH - MARKER_ROOM) \o TRUNCATION_MARKER
    ELSE response

(* _send_response: content = f"{message.author.mention}\n{response}" *)
ResponseContent(author, response) == Mention(author) \o <<"\n">> \o Truncated(response)

ERROR_LABEL == <<"E", "r", "r", "o", "r", ":", " ">>

ErrorDisplay_uncut(error) == error

(* _send_error_message: error[: Config.MAX_MESSAGE_LENGTH - 50] *)
ErrorDisplay(error) == Prefix(error, MAX_MESSAGE_LENGTH - ERROR_MARGIN)

(* _send_error_message: content *)
ErrorContent(author, error) ==
    Mention(author) \o <<"\n">> \o ERROR_LABEL \o ErrorDisplay(error)

(* a RateLimiter object *)
Limiter(limit) == [calls_per_minute |-> limit, call_times |-> << >>, last_call |-> << >>]

LimiterAfter(l, r) == [l EXCEPT !.call_times = r.call_times, !.last_call = r.last_call]

(* one limiter's part of _check_rate_limits: is_allowed at t, and after a   *)
(* refusal get_cooldown_seconds d later (its value is only logged, so its   *)
(* three clock readings are taken as one)                                   *)
CheckLimiter(l, key, t, d) ==
    LET a == is_allowed(l.call_times, l.last_call, key, t, l.calls_per_minute)
        c == get_cooldown_seconds(a.call_times, a.last_call, key, t + d, t + d, t + d,
                                  l.calls_per_minute)
    IN
    IF a.ok
    THEN [ok |-> TRUE, limiter |-> LimiterAfter(l, a), end |-> t, cooldown |-> 0]
    ELSE [ok |-> FALSE, limiter |-> LimiterAfter(l, c), end |-> t + d,
          cooldown |-> c.value]

check_rate_limits_user_only(users, guilds, user_id, guild_id, t, d) ==
    LET u == CheckLimiter(users, user_id, t, d)
        g == CheckLimiter(guilds, guild_id, t, d)
    IN
    IF ~u.ok
    THEN [ok |-> FALSE, users |-> u.limiter, guilds |-> guilds, end |-> u.end, by |-> "user"]
    ELSE [ok |-> TRUE, users |-> u.limiter, guilds |-> g.limiter, end |-> t, by |-> "none"]

check_rate_limits_guild_first(users, guilds, user_id, guild_id, t, d) ==
    LET u == CheckLimiter(users, user_id, t, d)
        g == CheckLimiter(guilds, guild_id, t, d)
    IN
    IF ~g.ok
    THEN [ok |-> FALSE, users |-> users, guilds |-> g.limiter, end |-> g.end, by |-> "guild"]
    ELSE IF ~u.ok
    THEN [ok |-> FALSE, users |-> u.limiter, guilds |-> g.limiter, end |-> u.end, by |-> "user"]
    ELSE [ok |-> TRUE, users |-> u.limiter, guilds |-> g.limiter, end |-> t, by |-> "none"]

(* _check_rate_limits: the user limiter, then the guild limiter *)
check_rate_limits(users, guilds, user_id, guild_id, t, d) ==
    LET u == CheckLimiter(users, user_id, t, d)
        g == CheckLimiter(guilds, guild_id, t, d)
    IN
    IF ~RATE_LIMIT_ENABLED
    THEN [ok |-> TRUE, users |-> users, guilds |-> guilds, end |-> t, by |-> "none"]
    ELSE IF ~u.ok
    THEN [ok |-> FALSE, users |-> u.limiter, guilds |-> guilds, end |-> u.end, by |-> "user"]
    ELSE IF ~g.ok
    THEN [ok |-> FALSE, users |-> u.limiter, guilds |-> g.limiter, end |-> g.end, by |-> "guild"]
    ELSE [ok |-> TRUE, users |-> u.limiter, guilds |-> g.limiter, end |-> t, by |-> "none"]

-----------------------------------------------------------------------------
(* The messages, the completion service and the channel the handler meets *)

Authors == {BOT, "1"}
Guilds == {None, Some("g")}

(* message.content: a bare mention, a mention with a question, a question *)
Contents == { <<"<@bot>">>, <<"<@!bot>", " ", "a", "b">>, <<"a", "b">> }

(* message.mentions holds the bot when the content mentions it (and may     *)
(* hold it for a reply without a mention in the content)                    *)
Messages ==
    {m \in [author : Authors, guild : Guilds, content : Contents, mentions_bot : BOOLEAN] :
        (\E i \in 1..Len(m.content) : m.content[i] \in BOT_MENTIONS) => m.mentions_bot}

(* a text of n characters, no four in a row alike *)
Text(n) == [i \in 1..n |-> IF i % 4 = 0 THEN "." ELSE IF i % 4 = 1 THEN "x" ELSE "y"]

(* what ask returns *)
Responses ==
    { <<>>, <<"h", "i">>, Text(MAX_MESSAGE_LENGTH), Text(MAX_MESSAGE_LENGTH + 1) }

(* str(e) of what ask, typing() or channel.send raise *)
Errors ==
    { <<"4", "0", "1">>, Text(MAX_MESSAGE_LENGTH - ERROR_MARGIN),
      Text(MAX_MESSAGE_LENGTH - ERROR_MARGIN + 1) }

(* str(e) of a failed channel.send *)
SEND_ERROR == <<"5", "0", "0">>

(* the limits the user limiter and the guild limiter are built with: the   *)
(* tighter one is the user's, or the guild's                                *)
HandlerLimits == { <<1, 2>>, <<2, 1>> }

NoMessage == [author |-> "", guild |-> None, content |-> <<>>, mentions_bot |-> FALSE]

(* the handler between two messages; users and guilds are its limiters *)
Waiting(users, guilds) ==
    [user_rate_limiter |-> users, guild_rate_limiter |-> guilds,
     pc |-> "idle", message |-> NoMessage, prompt |-> <<>>, checked |-> "none",
     asks |-> 0, pending |-> <<>>, sent |-> <<>>, raised |-> None, logged |-> 0,
     outcome |-> "none"]

HandlerRet(op) == [op |-> op]

HandlerFrame == UNCHANGED <<limiterVars, cacheVars, askVars, workerVars>>

HandlerInit ==
    /\ clock = 0
    /\ \E l \in HandlerLimits :
           handler = Waiting(Limiter(l[1]), Limiter(l[2]))
    /\ ret = HandlerRet("none")
    /\ LimiterUnused
    /\ CacheUnused
    /\ AskUnused
    /\ WorkersUnused

HandlerTick ==
    \E d \in TickSteps :
        /\ handler.pc \in {"idle", "done"}
        /\ clock + d <= MaxTime
        /\ clock' = clock + d
        /\ ret' = HandlerRet("tick")
        /\ UNCHANGED handler
        /\ HandlerFrame

(* on_message up to its first await: the two filters, the prompt, the       *)
(* admission check                                                          *)
OnMessage ==
    \E m \in Messages, d \in Elapsed :
        LET fresh == Waiting(handler.user_rate_limiter, handler.guild_rate_limiter)
            got == [fresh EXCEPT !.message = m]
            cleaned_prompt == extract_prompt(m.content)
            user_id == m.author
            guild_id == IF m.guild = None THEN "dm" ELSE m.guild[1]
            r == check_rate_limits(handler.user_rate_limiter, handler.guild_rate_limiter,
                                   user_id, guild_id, clock, d)
            checked == [got EXCEPT !.prompt = cleaned_prompt,
                                   !.user_rate_limiter = r.users,
                                   !.guild_rate_limiter = r.guilds,
                                   !.checked = IF r.ok THEN "admitted" ELSE r.by]
        IN
        /\ handler.pc \in {"idle", "done"}
        /\ ret' = HandlerRet("on_message")
        /\ HandlerFrame
        /\ IF m.author = BOT \/ ~m.mentions_bot
           THEN /\ d = 0
                /\ handler' = [got EXCEPT !.pc = "done", !.outcome = "ignored"]
                /\ clock' = clock
           ELSE IF cleaned_prompt = <<>>
           THEN /\ d = 0
                /\ handler' = [got EXCEPT !.pc = "greeting"]
                /\ clock' = clock
           ELSE /\ r.end <= MaxTime
                /\ r.ok => d = 0
                /\ clock' = r.end
                /\ handler' = IF r.ok
                              THEN [checked EXCEPT !.pc = "asking"]
                              ELSE [checked EXCEPT !.pc = "done", !.outcome = "suppressed"]

(* "await message.channel.send(...)" of the greeting *)
SendGreeting ==
    \E delivered \in BOOLEAN :
        LET content == Greeting(handler.message.author)
            tried == [handler EXCEPT !.sent = Append(@, [kind |-> "greeting",
                                         content |-> content, delivered |-> delivered])]
        IN
        /\ handler.pc = "greeting"
        /\ handler' = IF delivered
                      THEN [tried EXCEPT !.pc = "done", !.outcome = "greeted"]
                      ELSE [tried EXCEPT !.pc = "failed", !.raised = Some(SEND_ERROR)]
        /\ ret' = HandlerRet("greeting")
        /\ UNCHANGED clock
        /\ HandlerFrame

(* the typing indicator and "await self._get_llm_response(cleaned_prompt)" *)
GetLlmResponse ==
    \E typing \in BOOLEAN, answered_ok \in BOOLEAN, response \in Responses, e \in Errors :
        /\ handler.pc = "asking"
        /\ handler' =
             IF ~typing
             THEN [handler EXCEPT !.pc = "failed", !.raised = Some(e)]
             ELSE IF answered_ok
             THEN [handler EXCEPT !.pc = "sending", !.asks = @ + 1, !.pending = response]
             ELSE [handler EXCEPT !.pc = "failed", !.asks = @ + 1, !.raised = Some(e)]
        /\ ret' = HandlerRet("ask")
        /\ UNCHANGED clock
        /\ HandlerFrame

(* _send_response *)
SendResponse ==
    \E delivered \in BOOLEAN :
        LET content == ResponseContent(handler.message.author, handler.pending)
            tried == [handler EXCEPT !.sent = Append(@, [kind |-> "response",
                                         content |-> content, delivered |-> delivered])]
        IN
        /\ handler.pc = "sending"
        /\ handler' = IF delivered
                      THEN [tried EXCEPT !.pc = "done", !.outcome = "answered"]
                      ELSE [tried EXCEPT !.pc = "failed", !.raised = Some(SEND_ERROR)]
        /\ ret' = HandlerRet("send_response")
        /\ UNCHANGED clock
        /\ HandlerFrame

(* on_message: "except Exception as e", and _send_error_message *)
SendErrorMessage ==
    \E delivered \in BOOLEAN :
        LET content == ErrorContent(handler.message.author, handler.raised[1])
            tried == [handler EXCEPT !.sent = Append(@, [kind |-> "error",
                                         content |-> content, delivered |-> delivered])]
        IN
        /\ handler.pc = "failed"
        /\ handler' = IF delivered
                      THEN [tried EXCEPT !.pc = "done", !.outcome = "error"]
                      ELSE [tried EXCEPT !.pc = "done", !.outcome = "error",
                                         !.logged = @ + 1]
        /\ ret' = HandlerRet("send_error_message")
        /\ UNCHANGED clock
        /\ HandlerFrame

HandlerNext ==
    \/ HandlerTick
    \/ OnMessage
    \/ SendGreeting
    \/ GetLlmResponse
    \/ SendResponse
    \/ SendErrorMessage

SpecHandler == HandlerInit /\ [][HandlerNext]_vars

-----------------------------------------------------------------------------
(* Claims about the message handler, checked under SpecHandler *)

(* the message is for the bot and carries a prompt *)
Addressed(m) ==
    m.author # BOT /\ m.mentions_bot /\ extract_prompt(m.content) # <<>>

GuildKey(m) == IF m.guild = None THEN "dm" ELSE m.guild[1]

(* is_allowed(key) on limiter l at time t returns false *)
Refuses(l, key, t) ==
    ~is_allowed(l.call_times, l.last_call, key, t, l.calls_per_minute).ok

(* C13: when the user limiter or the guild limiter refuses a mentioned      *)
(* message that carries a prompt, the handler is done with the message at   *)
(* once: it makes no ask call and transmits nothing for it.                 *)
C13_RefusedIsSuppressed ==
    /\ [][(ret'.op = "on_message" /\ Addressed(handler'.message)
             /\ (\/ Refuses(handler.user_rate_limiter, handler'.message.author, clock)
                 \/ Refuses(handler.guild_rate_limiter, GuildKey(handler'.message), clock)))
          => /\ handler'.pc = "done"
             /\ handler'.outcome = "suppressed"
             /\ handler'.asks = 0
             /\ handler'.sent = <<>>]_vars
    /\ [](handler.outcome = "suppressed" =>
            /\ handler.pc = "done"
            /\ handler.asks = 0
            /\ handler.sent = <<>>
            /\ handler.raised = None)

C13_Witness ==
    /\ handler.outcome = "suppressed"
    /\ handler.checked = "guild"
    /\ handler.message.guild = Some("g")
    /\ handler.user_rate_limiter.call_times["1"] # <<>>

-----------------------------------------------------------------------------
(* Claims about concurrent calls, checked under SpecWorkers *)

(* no get of any thread failed because the entry vanished under it *)
NoGetFailed == \A t \in Threads : workers[t].result # "KeyError"

(* a step removes an entry only if the entry has expired *)
OnlyExpiredEvicted ==
    \A k \in DOMAIN cache : k \notin DOMAIN cache' => is_expired(cache[k], clock)

(* C14 as stated: the cache operations of concurrent ask calls on one key   *)
(* are atomic to each other: no fresh entry written by one call is deleted  *)
(* by another call's eviction of the expired entry it replaced, and no get  *)
(* fails because the entry vanished between its test and its read or del.   *)
C14_CacheOperationsAtomic == []NoGetFailed /\ [][OnlyExpiredEvicted]_vars

C14_NoLostUpdate == [][OnlyExpiredEvicted]_vars

-----------------------------------------------------------------------------
(* Claims about what the handler transmits, checked under SpecHandler *)

ErrorNotices == SelectSeq(handler.sent, LAMBDA x : x.kind = "error")

NoticeHeader == Mention(handler.message.author) \o <<"\n">> \o ERROR_LABEL

(* the error text shown in a notice: what follows the header *)
NoticeText(notice) ==
    SubSeq(notice.content, Len(NoticeHeader) + 1, Len(notice.content))

(* C15: when handling a mentioned message raised (the greeting, the typing  *)
(* indicator, ask or the sending of the answer), the handler sends exactly  *)
(* one error notice, as its last transmission; the notice shows the first   *)
(* MAX_MESSAGE_LENGTH - 50 characters of the error text (all of it when it  *)
(* is shorter); when sending the notice fails, that is logged once and      *)
(* on_message still returns normally.                                       *)
C15_FailureGivesOneNotice ==
    /\ []((handler.raised # None /\ handler.pc # "done") => handler.pc = "failed")
    /\ []((handler.raised # None /\ handler.pc = "done") =>
            LET notice == handler.sent[Len(handler.sent)]
                error == handler.raised[1]
            IN
            /\ Len(ErrorNotices) = 1
            /\ notice.kind = "error"
            /\ SubSeq(notice.content, 1, Len(NoticeHeader)) = NoticeHeader
            /\ Len(NoticeText(notice)) <= MAX_MESSAGE_LENGTH - 50
            /\ NoticeText(notice) = SubSeq(error, 1, Len(NoticeText(notice)))
            /\ Len(error) <= MAX_MESSAGE_LENGTH - 50 => NoticeText(notice) = error
            /\ Len(error) > MAX_MESSAGE_LENGTH - 50 =>
                   Len(NoticeText(notice)) = MAX_MESSAGE_LENGTH - 50
            /\ handler.outcome = "error"
            /\ handler.logged = IF notice.delivered THEN 0 ELSE 1)
    /\ [](handler.raised = None => (ErrorNotices = <<>> /\ handler.logged = 0))

C15_Witness ==
    /\ handler.pc = "done"
    /\ handler.asks = 1
    /\ handler.raised # None
    /\ Len(handler.raised[1]) = MAX_MESSAGE_LENGTH - 49
    /\ Len(handler.sent) = 1
    /\ ~handler.sent[1].delivered
    /\ handler.logged = 1

Answers == SelectSeq(handler.sent, LAMBDA x : x.kind = "response")

MentionLine == Mention(handler.message.author) \o <<"\n">>

(* the response part of a transmitted answer: what follows the mention line *)
AnswerText(answer) ==
    SubSeq(answer.content, Len(MentionLine) + 1, Len(answer.content))

EndsWithMarker(text) ==
    /\ Len(text) >= 3
    /\ SubSeq(text, Len(text) - 2, Len(text)) = <<".", ".", ".">>

(* C16 as stated: the text transmitted for a successful answer is at most   *)
(* MAX_MESSAGE_LENGTH characters long, ends with the truncation marker when *)
(* the response was cut, and carries the response unchanged when the        *)
(* response is not longer than the maximum.                                 *)
C16_TransmittedWithinMaximum ==
    \A i \in 1..Len(Answers) :
        /\ Len(Answers[i].content) <= MAX_MESSAGE_LENGTH
        /\ Len(handler.pending) > MAX_MESSAGE_LENGTH => EndsWithMarker(Answers[i].content)
        /\ Len(handler.pending) <= MAX_MESSAGE_LENGTH =>
               AnswerText(Answers[i]) = handler.pending

(* C16, amended: the transmitted text is the sender's mention line followed *)
(* by the response part; the response part is the response itself when the  *)
(* response has at most MAX_MESSAGE_LENGTH characters, and else its first   *)
(* MAX_MESSAGE_LENGTH - 4 characters followed by "..."; so the response     *)
(* part never exceeds MAX_MESSAGE_LENGTH characters, while the transmitted  *)
(* text is longer than it by the mention line.                              *)
C16_ResponsePartWithinMaximum ==
    \A i \in 1..Len(Answers) :
        LET response == handler.pending
            part == AnswerText(Answers[i])
        IN
        /\ SubSeq(Answers[i].content, 1, Len(MentionLine)) = MentionLine
        /\ Len(Answers[i].content) = Len(MentionLine) + Len(part)
        /\ Len(part) <= MAX_MESSAGE_LENGTH
        /\ Len(response) <= MAX_MESSAGE_LENGTH => part = response
        /\ Len(response) > MAX_MESSAGE_LENGTH =>
              /\ Len(part) = MAX_MESSAGE_LENGTH - 1
              /\ SubSeq(part, 1, MAX_MESSAGE_LENGTH - 4)
                     = SubSeq(response, 1, MAX_MESSAGE_LENGTH - 4)
              /\ EndsWithMarker(part)

C16_Witness ==
    /\ handler.outcome = "answered"
    /\ Len(handler.pending) = MAX_MESSAGE_LENGTH + 1
    /\ Len(Answers) = 1
    /\ Answers[1].delivered
    /\ Len(Answers[1].content) = MAX_MESSAGE_LENGTH + 4

-----------------------------------------------------------------------------
(* Further claims about the limiter, checked under SpecLimiter *)

(* the timestamps of a sequence that are less than 60 seconds old at now *)
StillCounted(times, now) == SelectSeq(times, LAMBDA t : now - 60 < t)

(* is_allowed(key) would return true on the stored state at time t *)
WouldAllow(times, last, key, t) == is_allowed(times, last, key, t, calls_per_minute).ok

(* how much later is_allowed is asked again: at once, and around the times  *)
(* at which stored timestamps leave the window                              *)
LaterBy == {0, 1, 29, 30, 31, 59, 60, 61}

(* C17: a refused call (by is_allowed itself or inside                      *)
(* get_cooldown_seconds) records nothing: afterwards the key's sequence is  *)
(* the old one without the timestamps that left the window, last-call       *)
(* times are the old ones, and at every later time is_allowed answers as it *)
(* would have without the refused call.                                     *)
C17_RefusedCallRecordsNothing ==
    [][(ret'.op \in CallOps /\ ~ret'.ok) =>
          LET key == ret'.key
              now == ret'.now
          IN
          /\ key \in DOMAIN call_times'
          /\ call_times'[key] = StillCounted(Lookup(call_times, key), now)
          /\ last_call' = last_call
          /\ \A d \in LaterBy :
                 WouldAllow(call_times', last_call', key, now + d)
                     = WouldAllow(call_times, last_call, key, now + d)]_vars

C17_Witness ==
    /\ ret.op = "is_allowed"
    /\ ~ret.ok
    /\ ret.now = 30
    /\ calls_per_minute = 1
    /\ n_calls[ret.key] = 3
    /\ call_times[ret.key] = <<0>>
    /\ last_call[ret.key] = 0

(* C18: a get_cooldown_seconds(key) whose is_allowed check admits the key   *)
(* returns 0 and has recorded the call as is_allowed does: now is appended  *)
(* to the key's pruned sequence and is its last-call time.  Once the        *)
(* sequence holds `limit` timestamps so recorded, is_allowed(key) refuses   *)
(* until the oldest of them is 60 seconds old; on a fresh key `limit`       *)
(* queries within one window suffice.                                       *)
C18_CooldownQueryRecords ==
    /\ [][(ret'.op = "get_cooldown_seconds" /\ ret'.ok) =>
            LET key == ret'.key
                now == ret'.now
            IN
            /\ ret'.value = 0
            /\ key \in DOMAIN call_times' /\ key \in DOMAIN last_call'
            /\ call_times'[key] = Append(StillCounted(Lookup(call_times, key), now), now)
            /\ last_call'[key] = now
            /\ Len(call_times'[key]) = calls_per_minute =>
                   \A d \in LaterBy :
                       now + d - 60 < call_times'[key][1] =>
                           ~WouldAllow(call_times', last_call', key, now + d)]_vars
    /\ [](\A key \in Keys :
            (n_calls[key] <= calls_per_minute /\ clock - first_call[key] < 60) =>
                Len(Lookup(call_times, key)) = n_calls[key])

C18_Witness ==
    /\ ret.op = "get_cooldown_seconds"
    /\ ret.ok
    /\ ret.value = 0
    /\ calls_per_minute = 1
    /\ n_calls[ret.key] = 1
    /\ call_times[ret.key] = <<ret.now>>
    /\ ~WouldAllow(call_times, last_call, ret.key, clock)

(* C19: is_allowed(key) at time now admits exactly when fewer than `limit`  *)
(* of the key's admitted timestamps t have now - 60 < t: a timestamp        *)
(* exactly 60 seconds old no longer counts, and a call made 60 seconds or   *)
(* more after the key's last admitted call is admitted.                     *)
C19_SlidingWindow ==
    [][(ret'.op \in CallOps) =>
          LET key == ret'.key
              now == ret'.now
          IN
          /\ ret'.ok <=> Len(StillCounted(admitted[key], now)) < calls_per_minute
          /\ (key \in DOMAIN last_call /\ now - last_call[key] >= 60) => ret'.ok
          /\ key \notin DOMAIN last_call => ret'.ok]_vars

C19_Witness ==
    /\ ret.op = "is_allowed"
    /\ ret.ok
    /\ ret.now = 60
    /\ calls_per_minute = 1
    /\ first_call[ret.key] = 0
    /\ n_calls[ret.key] = 3
    /\ call_times[ret.key] = <<60>>

-----------------------------------------------------------------------------
(* Further claims about the cache, checked under SpecCache *)

Expired(entry, now) == now > entry.expires_at

C21_SetOverwrites ==
    /\ [][(ret'.op = "set" /\ ret'.key \in DOMAIN cache) =>
            /\ DOMAIN cache' = DOMAIN cache
            /\ cache'[ret'.key] = [value |-> ret'.value[1],
                                   expires_at |-> clock + ttl_seconds]
            /\ SimpleCache_size(cache') = SimpleCache_size(cache)
            /\ \A k \in DOMAIN cache \ {ret'.key} : cache'[k] = cache[k]]_vars
    /\ [][(ret'.op = "set" /\ ret'.key \notin DOMAIN cache) =>
            /\ DOMAIN cache' = DOMAIN cache \cup {ret'.key}
            /\ cache'[ret'.key] = [value |-> ret'.value[1],
                                   expires_at |-> clock + ttl_seconds]
            /\ \A k \in DOMAIN cache : cache'[k] = cache[k]]_vars
    /\ [][(ret'.op = "get" /\ ret'.value # None) => cache' = cache]_vars

C21_Witness ==
    /\ ret.op = "set"
    /\ ret.before = 2
    /\ SimpleCache_size(cache) = 2
    /\ ttl_seconds = 30
    /\ ret.now = 90
    /\ cache[ret.key] = [value |-> "value2", expires_at |-> 120]
    /\ \E k \in DOMAIN cache : cache[k] = [value |-> "value2", expires_at |-> 30]

-----------------------------------------------------------------------------
(* Further claims about the completion client, checked under SpecAsk *)

AskFailures == {"ValueError", "AuthenticationError", "RetriesExhausted"}

(* text is raw without its leading and trailing whitespace *)
IsTrimOf(text, raw) ==
    /\ text # <<>> => ~AllWhitespace(<<text[1]>>) /\ ~AllWhitespace(<<text[Len(text)]>>)
    /\ \E i \in 0..(Len(raw) - Len(text)) :
          /\ SubSeq(raw, i + 1, i + Len(text)) = text
          /\ AllWhitespace(SubSeq(raw, 1, i))
          /\ AllWhitespace(SubSeq(raw, i + Len(text) + 1, Len(raw)))

(* C22: the steps of an ask call change the cache only as follows: the      *)
(* initial lookup may evict the expired entry of the call's own key; a      *)
(* failed attempt changes nothing, so a call ending in ValueError,          *)
(* AuthenticationError or RetriesExhausted has written nothing; the attempt *)
(* the provider answers writes exactly one entry, under the call's key,     *)
(* holding the provider text without its surrounding whitespace, in the     *)
(* step in which the call returns that text.                                *)
C22_CachedOnSuccessOnly ==
    /\ [](call.result \in AskFailures => call.sets = 0)
    /\ [][ret'.op = "ask" =>
            \/ cache' = cache
            \/ /\ call'.result # "ValueError"
               /\ build_cache_key(call'.system_prompt, call'.prompt) \in DOMAIN cache
               /\ clock > cache[build_cache_key(call'.system_prompt, call'.prompt)].expires_at
               /\ cache' = Remove(cache, build_cache_key(call'.system_prompt, call'.prompt))]_vars
    /\ [][(ret'.op = "attempt" /\ call'.last # "ok") => cache' = cache]_vars
    /\ [][(ret'.op = "attempt" /\ call'.last = "ok") =>
            LET key == build_cache_key(call.system_prompt, call.prompt) IN
            /\ call'.pc = "done" /\ call'.result = "ok"
            /\ call'.sets = 1
            /\ IsTrimOf(call'.value, call'.raw)
            /\ DOMAIN cache' = DOMAIN cache \cup {key}
            /\ cache'[key] = [value |-> call'.value, expires_at |-> clock + ttl_seconds]
            /\ \A k \in DOMAIN cache \ {key} : cache'[k] = cache[k]]_vars

C22_Witness ==
    /\ ret.op = "attempt"
    /\ call.result = "ok"
    /\ call.net_calls = 2
    /\ call.sets = 1
    /\ call.raw = <<" ", "h", "i", "\n">>
    /\ Cardinality(DOMAIN cache) = 2
    /\ cache[CallKey].value = <<"h", "i">>

(* C23: after a failed attempt n that the provider did not mean as an       *)
(* authentication failure, the call sleeps 2^n seconds when the failure is  *)
(* a timeout, a connection failure or another provider-reported error, and  *)
(* 1 second when it is any other exception, and then starts attempt n + 1;  *)
(* after a failure of the final attempt it sleeps not at all.               *)
C23_WaitByClassAndAttempt ==
    [][(ret'.op = "attempt" /\ call'.last \notin {"ok", "auth"}) =>
         LET n == call.attempt
             slept == clock' - clock
         IN
         IF n < max_retries
         THEN /\ call'.pc = "attempt"
              /\ call'.attempt = n + 1
              /\ slept = (IF call'.last = "Exception" THEN 1 ELSE 2 ^ n)
              /\ call'.waits = Append(call.waits, slept)
         ELSE /\ call'.pc = "done"
              /\ slept = 0
              /\ call'.waits = call.waits]_vars

-----------------------------------------------------------------------------
(* Termination of ask, checked under SpecWorkersFair and SpecAskFair *)

(* C24: every ask call that has begun comes to its end in one of the        *)
(* terminal states: a returned response (cache hit or answered attempt),    *)
(* AuthenticationError, RetriesExhausted or InvalidInput (ValueError).      *)
C24_EveryCallTerminates ==
    \A t \in Threads :
        (workers[t].pc \notin {"idle", "done"})
            ~> (workers[t].pc = "done" /\ workers[t].result \in AskResults)

(* every call of the threads does come to an end *)
C24_ConcurrentCallsEnd ==
    \A t \in Threads :
        (workers[t].pc \notin {"idle", "done"}) ~> (workers[t].pc = "done")

(* the terminal state of a finished call *)
TerminalState(c) ==
    CASE c.result = "ValueError" -> "InvalidInput"
      [] c.result = "ok" /\ c.net_calls = 0 -> "RETURN"
      [] c.result = "ok" -> "SUCCESS"
      [] c.result = "AuthenticationError" -> "FATAL_AUTH"
      [] c.result = "RetriesExhausted" -> "EXHAUSTED"
      [] OTHER -> "none"

(* C24 of calls that run one at a time: the call ends in one of the five    *)
(* terminal states; attempts are numbered 1..max_retries in order, each     *)
(* making one provider call, attempt n + 1 following the failure and the    *)
(* sleep of attempt n; no more than max_retries provider calls are made.    *)
C24_SequentialCallTerminates ==
    /\ (call.pc = "attempt") ~> (call.pc = "done")
    /\ [](call.pc = "done" =>
            TerminalState(call) \in {"RETURN", "SUCCESS", "FATAL_AUTH", "EXHAUSTED", "InvalidInput"})
    /\ [](call.net_calls <= max_retries)
    /\ [](call.pc = "attempt" =>
            /\ call.attempt \in 1..max_retries
            /\ call.net_calls = call.attempt - 1
            /\ Len(call.waits) = call.attempt - 1
            /\ call.last \notin {"ok", "auth"})
    /\ [][ret'.op = "ask" =>
            \/ call'.pc = "attempt" /\ call'.attempt = 1 /\ call'.net_calls = 0
            \/ call'.pc = "done" /\ TerminalState(call') \in {"RETURN", "InvalidInput"}]_vars
    /\ [][ret'.op = "attempt" =>
            /\ call.pc = "attempt"
            /\ call'.net_calls = call.net_calls + 1
            /\ \/ call'.pc = "done" /\ call'.attempt = call.attempt
                     /\ TerminalState(call') \in {"SUCCESS", "FATAL_AUTH", "EXHAUSTED"}
               \/ /\ call'.pc = "attempt"
                  /\ call'.attempt = call.attempt + 1
                  /\ call'.last \notin {"ok", "auth"}
                  /\ clock' > clock]_vars

-----------------------------------------------------------------------------
(* Further claims about the admission check, checked under SpecHandler *)

(* the sequence a limiter holds for a key *)
Recorded(l, key) == Lookup(l.call_times, key)

(* the sequence after an admitted is_allowed at time t *)
WithCall(times, t) == Append(SelectSeq(times, LAMBDA x : x > t - WINDOW_SECONDS), t)

(* C25: for a mentioned message with a prompt, a refusal by the user        *)
(* limiter leaves the guild limiter exactly as it was; when the user        *)
(* limiter admits, the user's sequence gains the time of the check at once, *)
(* also when the guild limiter then refuses and no ask call is made; an     *)
(* admitting guild limiter records the check in the same way.               *)
C25_UserCheckedFirstAndCharged ==
    [][(ret'.op = "on_message" /\ Addressed(handler'.message)) =>
         LET m == handler'.message
             users == handler.user_rate_limiter
             guilds == handler.guild_rate_limiter
         IN
         IF Refuses(users, m.author, clock)
         THEN /\ handler'.guild_rate_limiter = guilds
              /\ handler'.checked = "user"
              /\ handler'.asks = 0
         ELSE /\ Recorded(handler'.user_rate_limiter, m.author)
                    = WithCall(Recorded(users, m.author), clock)
              /\ handler'.user_rate_limiter.last_call[m.author] = clock
              /\ IF Refuses(guilds, GuildKey(m), clock)
                 THEN /\ handler'.checked = "guild"
                      /\ handler'.outcome = "suppressed"
                      /\ handler'.asks = 0
                 ELSE /\ handler'.checked = "admitted"
                      /\ Recorded(handler'.guild_rate_limiter, GuildKey(m))
                            = WithCall(Recorded(guilds, GuildKey(m)), clock)]_vars

C25_Witness ==
    /\ ret.op = "on_message"
    /\ handler.checked = "guild"
    /\ handler.outcome = "suppressed"
    /\ handler.asks = 0
    /\ Len(Recorded(handler.user_rate_limiter, "1")) = 2
    /\ handler.user_rate_limiter.calls_per_minute = 2

(* new holds the last entries of old, in their order *)
IsPruningOf(new, old) ==
    \E k \in 0..Len(old) : new = SubSeq(old, k + 1, Len(old))

(* C26: when a message is suppressed, the limiter that refused it holds for *)
(* the key afterwards only timestamps it held before: its sequence changed  *)
(* by pruning alone, however late get_cooldown_seconds ran.                 *)
C26_SuppressedAddsNoTimestamp ==
    [][(ret'.op = "on_message" /\ handler'.outcome = "suppressed") =>
         LET m == handler'.message IN
         /\ handler'.checked = "user" =>
               IsPruningOf(Recorded(handler'.user_rate_limiter, m.author),
                           Recorded(handler.user_rate_limiter, m.author))
         /\ handler'.checked = "guild" =>
               IsPruningOf(Recorded(handler'.guild_rate_limiter, GuildKey(m)),
                           Recorded(handler.guild_rate_limiter, GuildKey(m)))]_vars

====
